---- MODULE Spec2Model ----
(***************************************************************************)
(* Model of xtask/src/schemagen.rs: the three schema pipelines             *)
(* (generate_config_schema, generate_languages_schema,                     *)
(* generate_languages_user_schema) and the passes they run over a          *)
(* serde_json::Value document: the required-set relaxation of the user     *)
(* schema, the metadata insertion, add_serde_aliases and                   *)
(* ensure_no_additional_properties.                                        *)
(***************************************************************************)
EXTENDS Integers, Sequences, FiniteSets, TLC

(***************************************************************************)
(* serde_json::Value.  A value is a record with one field that names its   *)
(* variant: a string, a boolean, an array (a sequence of values) or an     *)
(* object (a function from key strings to values).  Map equality in        *)
(* serde_json does not depend on key order, as function equality here.     *)
(***************************************************************************)
JStr(s) == [str |-> s]
JBool(b) == [bool |-> b]
JArr(a) == [arr |-> a]
JObj(m) == [obj |-> m]

IsString(v) == "str" \in DOMAIN v
IsBool(v) == "bool" \in DOMAIN v
IsArray(v) == "arr" \in DOMAIN v
IsObject(v) == "obj" \in DOMAIN v

contains_key(map, key) == key \in DOMAIN map
insert(map, key, val) ==
    [k \in DOMAIN map \cup {key} |-> IF k = key THEN val ELSE map[k]]
remove(map, key) == [k \in DOMAIN map \ {key} |-> map[k]]

\* value.get(key).and_then(|v| v.as_object()) is Some
has_object(value, key) ==
    /\ IsObject(value)
    /\ contains_key(value.obj, key)
    /\ IsObject(value.obj[key])

(***************************************************************************)
(* Bounds of the model.                                                    *)
(***************************************************************************)
\* nesting depth of the generated sub-schemas
MaxDepth == 2

(***************************************************************************)
(* The documents schema_for! may hand to the pipelines.                    *)
(***************************************************************************)
StringSchema == JObj("type" :> JStr("string"))
OpenObject == JObj("type" :> JStr("object"))
AnyKeysObject ==
    JObj("type" :> JStr("object") @@ "additionalProperties" :> JBool(TRUE))
Ref(name) == JObj("$ref" :> JStr(name))

ArrayOf(s) == JObj("type" :> JStr("array") @@ "items" :> s)
MapOf(s) == JObj("type" :> JStr("object") @@ "additionalProperties" :> s)
\* an untyped node that only carries properties (a flattened or allOf member)
Untyped(s) == JObj("properties" :> JObj("value" :> s))
\* a struct whose only field is itself called "properties"
StructOf(s) ==
    JObj("type" :> JStr("object")
         @@ "properties" :> JObj("properties" :> s)
         @@ "required" :> JArr(<<JStr("properties")>>))

Leaves == {StringSchema, OpenObject, AnyKeysObject}
Wrap(s) == {ArrayOf(s), MapOf(s), Untyped(s), StructOf(s)}

RECURSIVE Schemas(_)
Schemas(d) ==
    IF d = 0 THEN Leaves
    ELSE LET S == Schemas(d - 1) IN S \cup UNION {Wrap(s) : s \in S}

RequiredChoices ==
    {<< >>, <<JStr("name")>>, <<JStr("name"), JStr("scope")>>, <<JStr("scope")>>}

LangProps(s, withTokens) ==
    LET base == "name" :> StringSchema @@ "scope" :> StringSchema
    IN IF withTokens THEN insert(base, "comment-tokens", s) ELSE base

\* LanguageConfiguration, with or without a required entry
LangConfigs(s) ==
    LET shapes == {"type" :> JStr("object") @@ "properties" :> JObj(LangProps(s, t)) :
                      t \in BOOLEAN}
    IN {JObj(m) : m \in shapes}
       \cup {JObj(insert(m, "required", JArr(r))) : m \in shapes, r \in RequiredChoices}

ServerProps ==
    "command" :> StringSchema @@ "args" :> ArrayOf(StringSchema)
ServerConfigs ==
    LET m == "type" :> JStr("object") @@ "properties" :> JObj(ServerProps)
    IN {JObj(m), JObj(insert(m, "required", JArr(<<JStr("command")>>)))}

RootProps ==
    "language" :> ArrayOf(Ref("#/definitions/LanguageConfiguration"))
    @@ "language-server" :> MapOf(Ref("#/definitions/LanguageServerConfiguration"))

Root(props) ==
    "title" :> JStr("Configuration")
    @@ "type" :> JStr("object")
    @@ "properties" :> JObj(props)

\* the definitions tables: each named definition present or absent, and one
\* definition no inline node refers to
DefinitionTables(s) ==
    LET other == "Other" :> s
    IN {other}
       \cup {insert(other, "LanguageConfiguration", lc) : lc \in LangConfigs(s)}
       \cup {insert(other, "LanguageServerConfiguration", ls) : ls \in ServerConfigs}
       \cup {insert(insert(other, "LanguageConfiguration", lc),
                    "LanguageServerConfiguration", ls) :
                lc \in LangConfigs(s), ls \in ServerConfigs}

Documents ==
    UNION {
        {JObj(Root(insert(RootProps, "editor", s)))}
        \cup {JObj(insert(Root(RootProps), "definitions", JObj(t))) :
                 t \in DefinitionTables(s)}
      : s \in Schemas(MaxDepth)}

Targets == {"config", "languages-default", "languages-user"}

(***************************************************************************)
(* generate_languages_user_schema, lines 105-135: the required sets of the *)
(* two named definitions.                                                  *)
(***************************************************************************)
is_name(field) == IsString(field) /\ field.str = "name"

\* required.retain(|field| field.as_str() == Some("name"))
retain_name(lang_config) ==
    IF contains_key(lang_config, "required") /\ IsArray(lang_config["required"])
    THEN insert(lang_config, "required",
                JArr(SelectSeq(lang_config["required"].arr, is_name)))
    ELSE lang_config

\* the empty array assigned to a copy: the definition keeps its required entry
clear_copy(ls_config) == ls_config

\* the first rule's value pasted into the second: "name" becomes required
require_name(ls_config) ==
    IF contains_key(ls_config, "required")
    THEN insert(ls_config, "required", JArr(<<JStr("name")>>))
    ELSE ls_config

\* *required = json!([])
clear_required(ls_config) ==
    IF contains_key(ls_config, "required")
    THEN insert(ls_config, "required", JArr(<< >>))
    ELSE ls_config

\* definitions.get_mut("LanguageConfiguration").and_then(|lc| lc.as_object_mut())
relax_language(definitions) ==
    IF has_object(JObj(definitions), "LanguageConfiguration")
    THEN insert(definitions, "LanguageConfiguration",
                JObj(retain_name(definitions["LanguageConfiguration"].obj)))
    ELSE definitions

\* definitions.get_mut("LanguageServerConfiguration").and_then(|lsc| lsc.as_object_mut())
relax_server(definitions) ==
    IF has_object(JObj(definitions), "LanguageServerConfiguration")
    THEN insert(definitions, "LanguageServerConfiguration",
                JObj(clear_required(definitions["LanguageServerConfiguration"].obj)))
    ELSE definitions

\* the second rule nested in the first rule's if-let
relax_required_nested(schema_json) ==
    IF has_object(schema_json, "definitions")
    THEN LET definitions == schema_json.obj["definitions"].obj
             afterA == relax_language(definitions)
             afterB == relax_server(afterA)
         IN JObj(insert(schema_json.obj, "definitions",
                        JObj(IF has_object(JObj(definitions), "LanguageConfiguration")
                             THEN afterB ELSE afterA)))
    ELSE schema_json

relax_required(schema_json) ==
    IF has_object(schema_json, "definitions")
    THEN LET definitions == schema_json.obj["definitions"].obj
             afterA == relax_language(definitions)
             afterB == relax_server(afterA)
         IN JObj(insert(schema_json.obj, "definitions", JObj(afterB)))
    ELSE schema_json

(***************************************************************************)
(* The title and description the three generators insert at the root.      *)
(***************************************************************************)
attach_metadata(schema_json, name) ==
    IF IsObject(schema_json)
    THEN JObj(insert(insert(schema_json.obj, "title", JStr("title of " \o name)),
                     "description", JStr("description of " \o name)))
    ELSE schema_json

(***************************************************************************)
(* add_serde_aliases                                                       *)
(***************************************************************************)
\* the property moved to the alias instead of copied
rename_comment_token(properties) ==
    IF contains_key(properties, "comment-tokens")
    THEN remove(insert(properties, "comment-token", properties["comment-tokens"]),
                "comment-tokens")
    ELSE properties

alias_comment_token(properties) ==
    IF contains_key(properties, "comment-tokens")
    THEN insert(properties, "comment-token", properties["comment-tokens"])
    ELSE properties

alias_in_definition(lang_config) ==
    IF contains_key(lang_config, "properties") /\ IsObject(lang_config["properties"])
    THEN insert(lang_config, "properties",
                JObj(alias_comment_token(lang_config["properties"].obj)))
    ELSE lang_config

alias_language(definitions) ==
    IF has_object(JObj(definitions), "LanguageConfiguration")
    THEN insert(definitions, "LanguageConfiguration",
                JObj(alias_in_definition(definitions["LanguageConfiguration"].obj)))
    ELSE definitions

add_serde_aliases(schema) ==
    IF has_object(schema, "definitions")
    THEN LET definitions == schema.obj["definitions"].obj
         IN JObj(insert(schema.obj, "definitions", JObj(alias_language(definitions))))
    ELSE schema

(***************************************************************************)
(* ensure_no_additional_properties                                         *)
(***************************************************************************)
has_type_object(map) ==
    /\ contains_key(map, "type")
    /\ IsString(map["type"])
    /\ map["type"].str = "object"

has_properties(map) == contains_key(map, "properties")

\* without the contains_key test: a pre-set entry is overwritten
close_map_overwriting(map) ==
    IF has_type_object(map) \/ has_properties(map)
    THEN insert(map, "additionalProperties", JBool(FALSE))
    ELSE map

\* without the shape test: every JSON object without the entry is closed
close_map_any_shape(map) ==
    IF ~contains_key(map, "additionalProperties")
    THEN insert(map, "additionalProperties", JBool(FALSE))
    ELSE map

close_map(map) ==
    IF (has_type_object(map) \/ has_properties(map))
       /\ ~contains_key(map, "additionalProperties")
    THEN insert(map, "additionalProperties", JBool(FALSE))
    ELSE map

\* the definitions table left out of the walk
RECURSIVE ensure_inline_only(_)
ensure_inline_only(value) ==
    IF IsObject(value)
    THEN LET map == close_map(value.obj)
         IN JObj([k \in DOMAIN map |->
                    IF k = "definitions" THEN map[k] ELSE ensure_inline_only(map[k])])
    ELSE IF IsArray(value)
    THEN JArr([i \in DOMAIN value.arr |-> ensure_inline_only(value.arr[i])])
    ELSE value

\* the walk stops at a node it has just closed
RECURSIVE ensure_close_or_descend(_)
ensure_close_or_descend(value) ==
    IF IsObject(value)
    THEN LET map == close_map(value.obj)
         IN IF map # value.obj THEN JObj(map)
            ELSE JObj([k \in DOMAIN map |-> ensure_close_or_descend(map[k])])
    ELSE IF IsArray(value)
    THEN JArr([i \in DOMAIN value.arr |-> ensure_close_or_descend(value.arr[i])])
    ELSE value

RECURSIVE ensure_no_additional_properties(_)
ensure_no_additional_properties(value) ==
    IF IsObject(value)
    THEN LET map == close_map(value.obj)
         IN JObj([k \in DOMAIN map |-> ensure_no_additional_properties(map[k])])
    ELSE IF IsArray(value)
    THEN JArr([i \in DOMAIN value.arr |-> ensure_no_additional_properties(value.arr[i])])
    ELSE value

(***************************************************************************)
(* The pipelines.  derived is what schema_for! returned, before is the     *)
(* document as the pass that ran last found it.                            *)
(***************************************************************************)
VARIABLES target, pc, doc, before, derived

vars == <<target, pc, doc, before, derived>>

Init ==
    /\ target \in Targets
    /\ derived \in Documents
    /\ doc = derived
    /\ before = derived
    /\ pc = "derived"

Step(next, result) ==
    /\ pc' = next
    /\ before' = doc
    /\ doc' = result
    /\ UNCHANGED <<target, derived>>

RelaxRequired ==
    /\ target = "languages-user"
    /\ pc = "derived"
    /\ Step("relaxed", relax_required(doc))

AttachMetadata ==
    /\ pc = (IF target = "languages-user" THEN "relaxed" ELSE "derived")
    /\ Step("described", attach_metadata(doc, target))

AddSerdeAliases ==
    /\ target # "config"
    /\ pc = "described"
    /\ Step("aliased", add_serde_aliases(doc))

EnsureNoAdditionalProperties ==
    /\ pc = (IF target = "config" THEN "described" ELSE "aliased")
    /\ Step("normalized", ensure_no_additional_properties(doc))

Next ==
    \/ RelaxRequired
    \/ AttachMetadata
    \/ AddSerdeAliases
    \/ EnsureNoAdditionalProperties

Spec == Init /\ [][Next]_vars

TypeOK ==
    /\ target \in Targets
    /\ pc \in {"derived", "relaxed", "described", "aliased", "normalized"}
    /\ IsObject(doc)

(***************************************************************************)
(* Vocabulary of the properties.                                           *)
(***************************************************************************)
AP == "additionalProperties"
LangDef == "LanguageConfiguration"
ServerDef == "LanguageServerConfiguration"

\* a node whose declared type is "object" or that carries a properties map
ObjectShaped(n) ==
    \/ (contains_key(n, "type") /\ n["type"] = JStr("object"))
    \/ contains_key(n, "properties")

\* every JSON object of a value, at any nesting depth
RECURSIVE Nodes(_)
Nodes(v) ==
    IF IsObject(v)
    THEN {v.obj} \cup UNION {Nodes(v.obj[k]) : k \in DOMAIN v.obj}
    ELSE IF IsArray(v)
    THEN UNION {Nodes(v.arr[i]) : i \in DOMAIN v.arr}
    ELSE {}

\* the JSON objects of b paired with the ones at the same place in a
RECURSIVE Pairs(_, _)
Pairs(b, a) ==
    IF IsObject(b) /\ IsObject(a)
    THEN {<<b.obj, a.obj>>}
         \cup UNION {Pairs(b.obj[k], a.obj[k]) : k \in DOMAIN b.obj \cap DOMAIN a.obj}
    ELSE IF IsArray(b) /\ IsArray(a)
    THEN UNION {Pairs(b.arr[i], a.arr[i]) : i \in DOMAIN b.arr \cap DOMAIN a.arr}
    ELSE {}

\* the schema nodes of b (the root, the definitions, the property, item and
\* additionalProperties schemas below them) paired with the ones at the same
\* place in a
RECURSIVE SchemaPairs(_, _)
SchemaPairs(b, a) ==
    IF IsObject(b) /\ IsObject(a)
    THEN {<<b.obj, a.obj>>}
         \cup UNION {SchemaPairs(b.obj[k], a.obj[k]) :
                        k \in {"items", AP} \cap (DOMAIN b.obj \cap DOMAIN a.obj)}
         \cup UNION {IF has_object(b, k) /\ has_object(a, k)
                     THEN UNION {SchemaPairs(b.obj[k].obj[f], a.obj[k].obj[f]) :
                                    f \in DOMAIN b.obj[k].obj \cap DOMAIN a.obj[k].obj}
                     ELSE {} : k \in {"properties", "definitions"}}
    ELSE {}

Closed(v) == \A n \in Nodes(v) : ObjectShaped(n) => contains_key(n, AP)

\* a differs from b at most by additionalProperties: false entries added to
\* object-shaped nodes that had none
RECURSIVE OnlyCloses(_, _)
OnlyCloses(b, a) ==
    IF IsObject(b)
    THEN /\ IsObject(a)
         /\ DOMAIN b.obj \subseteq DOMAIN a.obj
         /\ DOMAIN a.obj \ DOMAIN b.obj \subseteq {AP}
         /\ (~contains_key(b.obj, AP) /\ contains_key(a.obj, AP)
                => a.obj[AP] = JBool(FALSE) /\ ObjectShaped(b.obj))
         /\ \A k \in DOMAIN b.obj : OnlyCloses(b.obj[k], a.obj[k])
    ELSE IF IsArray(b)
    THEN /\ IsArray(a)
         /\ DOMAIN a.arr = DOMAIN b.arr
         /\ \A i \in DOMAIN b.arr : OnlyCloses(b.arr[i], a.arr[i])
    ELSE a = b

OptsOut(n) == contains_key(n, AP) /\ ~IsBool(n[AP])

HasDef(d, name) ==
    has_object(d, "definitions") /\ has_object(d.obj["definitions"], name)
Def(d, name) == d.obj["definitions"].obj[name].obj

WithoutDef(d, name) ==
    JObj(insert(d.obj, "definitions", JObj(remove(d.obj["definitions"].obj, name))))

RequiredSet(n) ==
    IF contains_key(n, "required") /\ IsArray(n["required"])
    THEN {n["required"].arr[i] : i \in DOMAIN n["required"].arr}
    ELSE {}

PropertyNames(n) ==
    IF contains_key(n, "properties") /\ IsObject(n["properties"])
    THEN {JStr(k) : k \in DOMAIN n["properties"].obj}
    ELSE {}

RequiredWithinProperties(d) ==
    \A n \in Nodes(d) : ObjectShaped(n) => RequiredSet(n) \subseteq PropertyNames(n)

HasCanonical(d) ==
    /\ HasDef(d, LangDef)
    /\ has_object(JObj(Def(d, LangDef)), "properties")
    /\ contains_key(Def(d, LangDef)["properties"].obj, "comment-tokens")
LangProperties(d) == Def(d, LangDef)["properties"].obj

(***************************************************************************)
(* Properties of ensure_no_additional_properties.                          *)
(***************************************************************************)
Normalized == pc = "normalized"

\* C1: after ensure_no_additional_properties every object-shaped node of the
\* document, at any nesting depth and in the definitions table as well as the
\* inline tree, has an additionalProperties entry.
C1_ClosureInvariant == Normalized => Closed(doc)

\* an object-shaped node nested in a definition no inline node refers to had
\* no entry and was closed
C1_Witness ==
    /\ Normalized
    /\ has_object(before, "definitions")
    /\ \E p \in Pairs(before.obj["definitions"].obj["Other"],
                      doc.obj["definitions"].obj["Other"]) :
          /\ p[1] # before.obj["definitions"].obj["Other"].obj
          /\ ObjectShaped(p[1])
          /\ ~contains_key(p[1], AP)
          /\ p[2][AP] = JBool(FALSE)

\* C2 as stated: a node whose additionalProperties is pre-set to a non-boolean
\* schema is the same node after normalization as before.
C2_OptOutIdentical ==
    Normalized => \A p \in Pairs(before, doc) : OptsOut(p[1]) => p[2] = p[1]

\* C2 amended: a node whose additionalProperties is pre-set to a non-boolean
\* schema keeps its keys and a non-boolean additionalProperties; it is left
\* identical when every object-shaped node nested in it is already closed, and
\* otherwise differs only by additionalProperties: false entries added to
\* object-shaped nodes nested in it (its value schema included).
C2_OptOutKept ==
    Normalized =>
        \A p \in Pairs(before, doc) :
            OptsOut(p[1]) =>
                /\ DOMAIN p[2] = DOMAIN p[1]
                /\ ~IsBool(p[2][AP])
                /\ OnlyCloses(JObj(p[1]), JObj(p[2]))
                /\ (Closed(JObj(p[1])) => p[2] = p[1])

\* a map whose value type is itself an object, closed beforehand, is untouched
\* while the run closes other nodes
C2_Witness ==
    /\ Normalized
    /\ doc # before
    /\ \E p \in Pairs(before, doc) :
          /\ OptsOut(p[1])
          /\ ObjectShaped(p[1][AP].obj)
          /\ p[2] = p[1]

\* C3: a node that has an additionalProperties entry before normalization has
\* it afterwards, a boolean one with the same value, and false is written only
\* into nodes that had no entry.
C3_PresetNeverOverwritten ==
    Normalized =>
        /\ {p[1] : p \in Pairs(before, doc)} = Nodes(before)
        /\ \A p \in Pairs(before, doc) :
              /\ contains_key(p[1], AP) =>
                    /\ contains_key(p[2], AP)
                    /\ IsBool(p[1][AP]) => p[2][AP] = p[1][AP]
                    /\ p[2][AP] = JBool(FALSE) => p[1][AP] = JBool(FALSE)
              /\ ~contains_key(p[1], AP) /\ contains_key(p[2], AP) =>
                    p[2][AP] = JBool(FALSE)

\* a node pre-set to true is still true while another node got false
C3_Witness ==
    /\ Normalized
    /\ \E p \in Pairs(before, doc) :
          /\ contains_key(p[1], AP)
          /\ p[1][AP] = JBool(TRUE)
          /\ p[2][AP] = JBool(TRUE)
    /\ \E p \in Pairs(before, doc) :
          ~contains_key(p[1], AP) /\ contains_key(p[2], AP)

\* C7: a second run of ensure_no_additional_properties changes nothing.
C7_Idempotent == Normalized => ensure_no_additional_properties(doc) = doc

\* the first run closed a node and a node nested in it
C7_Witness ==
    /\ Normalized
    /\ \E p \in Pairs(before, doc) :
          /\ ~contains_key(p[1], AP) /\ contains_key(p[2], AP)
          /\ \E k \in DOMAIN p[1] :
                \E q \in Pairs(p[1][k], p[2][k]) :
                    ~contains_key(q[1], AP) /\ contains_key(q[2], AP)

\* C10: the normalizer adds no key to a properties map: every schema node has
\* the same property names after normalization as before.
C10_PropertyNamesKept ==
    Normalized =>
        \A p \in SchemaPairs(before, doc) :
            PropertyNames(p[2]) = PropertyNames(p[1])

(***************************************************************************)
(* Properties of the required-set relaxation.                              *)
(***************************************************************************)
Relaxed == pc = "relaxed"

\* C4: after the relaxation LanguageConfiguration's required set is exactly
\* {"name"}, whatever it was before, "name" being forced in when it was not
\* required.
C4_RequiredExactlyName ==
    Relaxed /\ HasDef(before, LangDef) =>
        RequiredSet(Def(doc, LangDef)) = {JStr("name")}

\* C5: after the relaxation LanguageServerConfiguration's required set is
\* empty, whatever the derivation required.
C5_ServerRequiredEmpty ==
    Relaxed /\ HasDef(before, ServerDef) =>
        /\ HasDef(doc, ServerDef)
        /\ RequiredSet(Def(doc, ServerDef)) = {}
        /\ contains_key(Def(doc, ServerDef), "required") =>
              Def(doc, ServerDef)["required"] = JArr(<< >>)

\* required {"command"} became empty
C5_Witness ==
    /\ Relaxed
    /\ HasDef(before, ServerDef)
    /\ RequiredSet(Def(before, ServerDef)) = {JStr("command")}
    /\ Def(doc, ServerDef)["required"] = JArr(<< >>)

\* C8: when every object-shaped node of the derived document has its required
\* names among its property names, so has every object-shaped node after the
\* relaxation and after each pass that follows it in the user pipeline.
C8_RequiredSubset ==
    target = "languages-user" /\ RequiredWithinProperties(derived) =>
        RequiredWithinProperties(doc)

\* the whole user pipeline ran on a document whose definitions both had
\* required fields
C8_Witness ==
    /\ target = "languages-user"
    /\ Normalized
    /\ RequiredWithinProperties(derived)
    /\ HasDef(derived, LangDef) /\ HasDef(derived, ServerDef)
    /\ RequiredSet(Def(derived, LangDef)) = {JStr("name"), JStr("scope")}
    /\ RequiredSet(Def(derived, ServerDef)) = {JStr("command")}
    /\ RequiredSet(Def(doc, LangDef)) = {JStr("name")}
    /\ contains_key(LangProperties(doc), "comment-token")

(***************************************************************************)
(* Properties of add_serde_aliases.                                        *)
(***************************************************************************)
Aliased == pc = "aliased"

\* C6: when LanguageConfiguration has the property comment-tokens with schema
\* S, after add_serde_aliases it has comment-tokens and comment-token, both S,
\* and its other properties as before; when it has not, the document is
\* unchanged.
C6_AliasFidelity ==
    Aliased =>
        IF HasCanonical(before)
        THEN /\ HasCanonical(doc)
             /\ LangProperties(doc)["comment-tokens"]
                   = LangProperties(before)["comment-tokens"]
             /\ contains_key(LangProperties(doc), "comment-token")
             /\ LangProperties(doc)["comment-token"]
                   = LangProperties(before)["comment-tokens"]
             /\ remove(LangProperties(doc), "comment-token")
                   = remove(LangProperties(before), "comment-token")
             /\ WithoutDef(doc, LangDef) = WithoutDef(before, LangDef)
        ELSE doc = before

\* a nested schema was duplicated under the alias
C6_Witness ==
    /\ Aliased
    /\ HasCanonical(before)
    /\ ~contains_key(LangProperties(before), "comment-token")
    /\ \E s \in Schemas(0) : \E w \in Wrap(s) :
          LangProperties(doc)["comment-token"] \in Wrap(w)

(***************************************************************************)
(* Missing definitions.                                                    *)
(***************************************************************************)
\* C9: a rule whose definition (or the whole definitions table) is absent is
\* skipped: the relaxation still applies the rule of the definition that is
\* present and changes nothing else, add_serde_aliases changes nothing when
\* LanguageConfiguration is absent, and with both definitions absent both
\* passes return the document as they found it.
C9_MissingDefinitionSkip ==
    /\ Relaxed =>
          /\ ~HasDef(before, LangDef) /\ ~HasDef(before, ServerDef) => doc = before
          /\ ~HasDef(before, LangDef) /\ HasDef(before, ServerDef) =>
                /\ HasDef(doc, ServerDef)
                /\ RequiredSet(Def(doc, ServerDef)) = {}
                /\ WithoutDef(doc, ServerDef) = WithoutDef(before, ServerDef)
          /\ HasDef(before, LangDef) /\ ~HasDef(before, ServerDef) =>
                /\ HasDef(doc, LangDef)
                /\ RequiredSet(Def(doc, LangDef)) \subseteq {JStr("name")}
                /\ WithoutDef(doc, LangDef) = WithoutDef(before, LangDef)
    /\ Aliased =>
          (~HasDef(before, LangDef) => doc = before)

\* LanguageConfiguration is absent and the server definition's required
\* fields were still cleared
C9_Witness ==
    /\ Relaxed
    /\ ~HasDef(before, LangDef)
    /\ HasDef(before, ServerDef)
    /\ RequiredSet(Def(before, ServerDef)) = {JStr("command")}
    /\ RequiredSet(Def(doc, ServerDef)) = {}
====
